---- MODULE Spec2Model ----
(***************************************************************************)
(* A model of the GeoIP range resolution tools of netadmin-snippets:       *)
(*   reference/geoip/geoip_csv_batch_query.py  (resolver, chunk pipeline)  *)
(*   reference/geoip/geoip_csv_export.py       (ip_range_to_cidr)          *)
(*                                                                         *)
(* Addresses are integers of a family-specific width.  The widths are      *)
(* scaled down (IPV4LENGTH, IPV6LENGTH bits instead of 32 and 128); the    *)
(* arithmetic of ipaddress is kept as it is.  A text value (an input line, *)
(* a cell) is modelled by what the ipaddress parsers make of it: a record  *)
(* [k, v, a, p] with k = "addr" (a single address a of family v),          *)
(* k = "cidr" (the text "a/p", which contains a '/'), or k = "junk" (text  *)
(* no parser accepts, e.g. 'nan').                                         *)
(***************************************************************************)
EXTENDS Integers, Sequences, FiniteSets, TLC

VARIABLES
    ipv4_data,      \* rows of the GeoIP table whose start_ip is IPv4, in file order
    ipv6_data,      \* rows of the GeoIP table whose start_ip is IPv6, in file order
    columns,        \* column names of the loaded GeoIP DataFrame
    df,             \* the 'IP' column of the input; row i+1 has DataFrame index i
    chunk_size,
    is_text_file,   \* TRUE in process_text_file, FALSE in process_excel
    pc,             \* position of the main process in process_text_file/process_excel
    futures,        \* one future per chunk, in submission order
    results,        \* chunk results in the order as_completed delivered them
    all_errors,
    output_file,    \* what save_output wrote; None before it is written
    ip_series,      \* argument of a direct call of find_country_continent_cidr
    ret,            \* what that call returned; None before the call
    start_ip,       \* arguments of a call of ip_range_to_cidr
    end_ip,
    cidr_list,      \* what ip_range_to_cidr returned; None before the call
    csv_file,       \* the GeoIP CSV file: its lines, each the list of its cells
    args,           \* --ignore_first_row and the column indices of geoip_csv_export.py
    format_msg,     \* the "... format detected/matched" message written, None if none
    load_error,     \* the exception that ended the load, None if none
    country_data,   \* the dictionary collect fills: country code -> pools
    stderr,         \* line numbers of the "Skipping row" messages of collect
    lines,          \* the lines of the input text file of process_text_file
    attempts,       \* batch_tcping: connection attempts per target
    use_paping,     \* batch_tcping: TRUE if test_port_with_paping is the test function
    progress_counter,   \* batch_tcping: progress_counter.value
    total_pings,    \* batch_tcping: len(targets) * attempts
    targets         \* batch_tcping: the (target, port) pairs read_targets returned

vars == <<ipv4_data, ipv6_data, columns, df, chunk_size, is_text_file, pc,
          futures, results, all_errors, output_file, ip_series, ret,
          start_ip, end_ip, cidr_list,
          csv_file, args, format_msg, load_error, country_data, stderr, lines,
          attempts, use_paping, progress_counter, total_pings, targets>>

tcping_vars == <<attempts, use_paping, progress_counter, total_pings, targets>>

load_vars == <<csv_file, args, format_msg, load_error, country_data, stderr, lines>>

(***************************************************************************)
(* Bounds of the model.                                                    *)
(***************************************************************************)
IPV4LENGTH == 2     \* bits of an IPv4 address in the model (32 in ipaddress)
IPV6LENGTH == 3     \* bits of an IPv6 address in the model (128 in ipaddress)
MaxItems == 3       \* longest input list
MaxChunk == 2       \* largest chunk size

(***************************************************************************)
(* Values.                                                                 *)
(***************************************************************************)
None == "None"      \* Python's None
NaN == "NaN"        \* pandas' missing value (read_csv reads an empty or 'NA' cell as NaN)

Min(a, b) == IF a <= b THEN a ELSE b

RECURSIVE Pow2(_)
Pow2(n) == IF n = 0 THEN 1 ELSE 2 * Pow2(n - 1)

max_prefixlen(v) == IF v = 4 THEN IPV4LENGTH ELSE IPV6LENGTH
ALL_ONES(v) == Pow2(max_prefixlen(v)) - 1
Addresses(v) == 0 .. ALL_ONES(v)

\* changed bit_length: the loop over the bits is left after the first one
bit_length_one(n) == IF n = 0 THEN 0 ELSE 1

\* int.bit_length()
RECURSIVE bit_length(_)
bit_length(n) == IF n = 0 THEN 0 ELSE 1 + bit_length(n \div 2)

\* ipaddress._count_righthand_zero_bits(number, bits)
RECURSIVE trailing_zero_bits(_)
trailing_zero_bits(number) ==
    IF number % 2 = 1 THEN 0 ELSE 1 + trailing_zero_bits(number \div 2)

\* changed count_righthand_zero_bits: the address 0 counts as unaligned
count_righthand_zero_bits_of_zero(number, bits) ==
    IF number = 0 THEN 0 ELSE Min(bits, trailing_zero_bits(number))

\* changed count_righthand_zero_bits: every address counts as fully aligned
count_righthand_zero_bits_ignored(number, bits) == bits

count_righthand_zero_bits(number, bits) ==
    IF number = 0 THEN bits ELSE Min(bits, trailing_zero_bits(number))

(***************************************************************************)
(* Text values and the ipaddress parsers.                                  *)
(***************************************************************************)
AddrText(v, a) == [k |-> "addr", v |-> v, a |-> a, p |-> 0]
CidrText(v, a, p) == [k |-> "cidr", v |-> v, a |-> a, p |-> p]
JunkText == [k |-> "junk", v |-> 0, a |-> 0, p |-> 0]

\* '/' in ip
has_slash(ip) == ip.k = "cidr"

\* ipaddress.ip_address(ip) raises ValueError unless the text is one address
ip_address_ok(ip) == ip.k = "addr" /\ ip.v \in {4, 6} /\ ip.a \in Addresses(ip.v)
ip_address(ip) == [version |-> ip.v, ip |-> ip.a]

\* ipaddress.ip_network(ip, strict=False): the host bits of the address are
\* masked out; a prefix length beyond the family's width is a ValueError
ip_network_ok(ip) ==
    /\ ip.k = "cidr" /\ ip.v \in {4, 6} /\ ip.a \in Addresses(ip.v)
    /\ ip.p \in 0 .. max_prefixlen(ip.v)
ip_network(ip) ==
    LET size == Pow2(max_prefixlen(ip.v) - ip.p)
        net == ip.a - (ip.a % size)
    IN  [version |-> ip.v, network_address |-> net,
         broadcast_address |-> net + size - 1, prefixlen |-> ip.p]

\* changed summarize_address_range: one host block for every address
summarize_address_range_hosts(first_int, last_int, v) ==
    [k \in 1 .. (last_int - first_int + 1) |->
        [version |-> v, network_address |-> first_int + k - 1,
         prefixlen |-> max_prefixlen(v)]]

(***************************************************************************)
(* ipaddress.summarize_address_range(first, last), on the integers of two  *)
(* addresses of family v with first <= last.  str(net) of each network is  *)
(* modelled by the pair (network_address, prefixlen) it prints.            *)
(***************************************************************************)
RECURSIVE summarize_address_range(_, _, _)
summarize_address_range(first_int, last_int, v) ==
    IF first_int > last_int THEN <<>>
    ELSE LET ip_bits == max_prefixlen(v)
             nbits == Min(count_righthand_zero_bits(first_int, ip_bits),
                          bit_length(last_int - first_int + 1) - 1)
             net == [version |-> v, network_address |-> first_int,
                     prefixlen |-> ip_bits - nbits]
             next_int == first_int + Pow2(nbits)
         IN  <<net>> \o (IF next_int - 1 = ALL_ONES(v) THEN <<>>
                         ELSE summarize_address_range(next_int, last_int, v))

(***************************************************************************)
(* find_country_continent_cidr.  A GeoIP row is a record                   *)
(* [start_ip, end_ip, country, continent_name] whose addresses are the     *)
(* integers of two addresses of the family of the table that holds it.     *)
(* cols is the set of column names of the GeoIP DataFrame: row[c] raises   *)
(* KeyError for a column it does not have.                                 *)
(***************************************************************************)
\* changed cidr_mask: both comparisons use the network address
cidr_mask_network_only(row, network) ==
    row.start_ip <= network.network_address /\ row.end_ip >= network.network_address

\* changed addr_mask: the comparisons are strict
addr_mask_strict(row, ip_addr) ==
    row.start_ip < ip_addr.ip /\ row.end_ip > ip_addr.ip

\* (data['start_ip'] <= network.network_address) & (data['end_ip'] >= network.broadcast_address)
cidr_mask(row, network) ==
    row.start_ip <= network.network_address /\ row.end_ip >= network.broadcast_address

\* changed addr_mask: the end of the range is not compared
addr_mask_start_only(row, ip_addr) == row.start_ip <= ip_addr.ip

\* (data['start_ip'] <= ip_addr) & (data['end_ip'] >= ip_addr)
addr_mask(row, ip_addr) ==
    row.start_ip <= ip_addr.ip /\ row.end_ip >= ip_addr.ip

\* data[mask]: the rows whose mask entry is True, in the order of data
RECURSIVE boolean_index(_, _)
boolean_index(data, mask) ==
    IF Len(data) = 0 THEN <<>>
    ELSE (IF Head(mask) THEN <<Head(data)>> ELSE <<>>)
         \o boolean_index(Tail(data), Tail(mask))

family_data(version, v4_data, v6_data) == IF version = 4 THEN v4_data ELSE v6_data

\* the try block up to the assignment of match; ValueError when the text does not parse
find_match(ip, v4_data, v6_data) ==
    IF has_slash(ip)
    THEN IF ~ip_network_ok(ip) THEN [error |-> "ValueError", match |-> <<>>, version |-> 0]
         ELSE LET network == ip_network(ip)
                  data == family_data(network.version, v4_data, v6_data)
              IN  [error |-> None, version |-> network.version,
                   match |-> boolean_index(data,
                                [j \in 1 .. Len(data) |-> cidr_mask(data[j], network)])]
    ELSE IF ~ip_address_ok(ip) THEN [error |-> "ValueError", match |-> <<>>, version |-> 0]
         ELSE LET ip_addr == ip_address(ip)
                  data == family_data(ip_addr.version, v4_data, v6_data)
              IN  [error |-> None, version |-> ip_addr.version,
                   match |-> boolean_index(data,
                                [j \in 1 .. Len(data) |-> addr_mask(data[j], ip_addr)])]

\* changed iloc0: the last matching row is taken
iloc0_last(match) == match[Len(match)]

\* match.iloc[0]
iloc0(match) == match[1]

\* changed row_range: the start address is used for both ends
row_range_start_twice(row) == <<row.start_ip, row.start_ip>>

\* start_ip, end_ip = row['start_ip'], row['end_ip']
row_range(row) == <<row.start_ip, row.end_ip>>

\* changed row_number: the offset within the chunk is used alone
row_number_in_chunk(start_index, i, text_file) ==
    IF text_file THEN i + 1 ELSE i + 2

\* row_number = start_index + i + 1 if is_text_file else start_index + i + 2
row_number(start_index, i, text_file) ==
    IF text_file THEN start_index + i + 1 ELSE start_index + i + 2

SkippedError(ip, row) == <<"[Skipped] Error processing IP", ip, row>>
NoMatchError(ip) == <<"No match found for IP/CIDR", ip>>

\* one iteration of the loop over ip_series, for the item at offset i
resolve_item(ip, i, v4_data, v6_data, cols, start_index, text_file) ==
    LET found == find_match(ip, v4_data, v6_data) IN
    IF found.error = "ValueError"
    THEN [raised |-> None, Country |-> None, Continent |-> None, CIDR |-> None,
          errors |-> <<SkippedError(ip, row_number(start_index, i, text_file))>>]
    ELSE IF Len(found.match) > 0
    THEN LET row == iloc0(found.match)
             range == row_range(row)
             cidr == summarize_address_range(range[1], range[2], found.version)
         IN  IF "continent_name" \notin cols
             THEN [raised |-> "KeyError", Country |-> None, Continent |-> None,
                   CIDR |-> None, errors |-> <<>>]
             ELSE [raised |-> None, Country |-> row.country,
                   Continent |-> row.continent_name, CIDR |-> cidr, errors |-> <<>>]
    ELSE [raised |-> None, Country |-> None, Continent |-> None, CIDR |-> None,
          errors |-> <<NoMatchError(ip)>>]

RECURSIVE extend_all(_)
extend_all(lists) ==
    IF Len(lists) = 0 THEN <<>> ELSE Head(lists) \o extend_all(Tail(lists))

\* the whole call: the four lists, or the exception that left the loop
find_country_continent_cidr(series, v4_data, v6_data, cols, start_index, text_file) ==
    LET item == [j \in 1 .. Len(series) |->
                    resolve_item(series[j], j - 1, v4_data, v6_data, cols,
                                 start_index, text_file)]
    IN  IF \E j \in 1 .. Len(series) : item[j].raised # None
        THEN [raised |-> "KeyError", countries |-> <<>>, continents |-> <<>>,
              cidrs |-> <<>>, errors |-> <<>>]
        ELSE [raised |-> None,
              countries |-> [j \in 1 .. Len(series) |-> item[j].Country],
              continents |-> [j \in 1 .. Len(series) |-> item[j].Continent],
              cidrs |-> [j \in 1 .. Len(series) |-> item[j].CIDR],
              errors |-> extend_all([j \in 1 .. Len(series) |-> item[j].errors])]

\* ip_range_to_cidr(start_ip, end_ip) of geoip_csv_export.py
ip_range_to_cidr(first, last) ==
    IF ~ip_address_ok(first) \/ ~ip_address_ok(last) THEN "ValueError"
    ELSE IF ip_address(first).version # ip_address(last).version THEN "TypeError"
    ELSE IF ip_address(first).ip > ip_address(last).ip THEN "ValueError"
    ELSE summarize_address_range(ip_address(first).ip, ip_address(last).ip,
                                 ip_address(first).version)

(***************************************************************************)
(* The chunk pipeline of process_text_file and process_excel.  A row of    *)
(* the input DataFrame is [index, IP]; index is its zero-based position.   *)
(***************************************************************************)
\* pd.DataFrame(ip_addresses, columns=['IP']) with its RangeIndex
DataFrame(ips) == [j \in 1 .. Len(ips) |-> [index |-> j - 1, IP |-> ips[j]]]

\* frame.iloc[i:j]
iloc_slice(frame, i, j) == SubSeq(frame, i + 1, Min(j, Len(frame)))

\* changed range_step: a chunk starts at every position
range_step_by_one(n, step) == [c \in 1 .. n |-> c - 1]

\* range(0, n, step) as the sequence of its values
range_step(n, step) == [c \in 1 .. ((n + step - 1) \div step) |-> (c - 1) * step]

\* chunks = [df.iloc[i:i + chunk_size] for i in range(0, df.shape[0], chunk_size)]
make_chunks(frame, size) ==
    LET starts == range_step(Len(frame), size)
    IN  [c \in 1 .. Len(starts) |-> iloc_slice(frame, starts[c], starts[c] + size)]

\* changed process_chunk: the resolver is told the chunk starts at row 0
process_chunk_from_zero(chunk, v4_data, v6_data, cols, start_index, text_file) ==
    LET series == [j \in 1 .. Len(chunk) |-> chunk[j].IP]
        r == find_country_continent_cidr(series, v4_data, v6_data, cols, 0, text_file)
    IN  IF r.raised # None
        THEN [raised |-> r.raised, chunk |-> <<>>, errors |-> <<>>]
        ELSE [raised |-> None,
              chunk |-> [j \in 1 .. Len(chunk) |->
                            [index |-> chunk[j].index, IP |-> chunk[j].IP,
                             Country |-> r.countries[j],
                             Continent |-> r.continents[j],
                             CIDR |-> r.cidrs[j],
                             OriginalIndex |-> chunk[j].index]],
              errors |-> r.errors]

\* process_chunk: the chunk with its new columns and the errors, or the
\* exception find_country_continent_cidr raised
process_chunk(chunk, v4_data, v6_data, cols, start_index, text_file) ==
    LET series == [j \in 1 .. Len(chunk) |-> chunk[j].IP]
        r == find_country_continent_cidr(series, v4_data, v6_data, cols,
                                         start_index, text_file)
    IN  IF r.raised # None
        THEN [raised |-> r.raised, chunk |-> <<>>, errors |-> <<>>]
        ELSE [raised |-> None,
              chunk |-> [j \in 1 .. Len(chunk) |->
                            [index |-> chunk[j].index, IP |-> chunk[j].IP,
                             Country |-> r.countries[j],
                             Continent |-> r.continents[j],
                             CIDR |-> r.cidrs[j],
                             OriginalIndex |-> chunk[j].index]],
              errors |-> r.errors]

\* pd.concat(results)
concat(frames) == extend_all(frames)

\* frame.sort_values(by='OriginalIndex'): insertion of each row at its place
RECURSIVE insert_sorted(_, _)
insert_sorted(row, sorted) ==
    IF Len(sorted) = 0 THEN <<row>>
    ELSE IF row.OriginalIndex < Head(sorted).OriginalIndex THEN <<row>> \o sorted
    ELSE <<Head(sorted)>> \o insert_sorted(row, Tail(sorted))

\* changed sort_values: the concatenation is left in completion order
sort_values_skipped(frame) == frame

RECURSIVE sort_values(_)
sort_values(frame) ==
    IF Len(frame) = 0 THEN <<>>
    ELSE insert_sorted(frame[Len(frame)], sort_values(SubSeq(frame, 1, Len(frame) - 1)))

\* frame.drop(columns=['OriginalIndex'])
drop_OriginalIndex(frame) ==
    [j \in 1 .. Len(frame) |->
        [index |-> frame[j].index, IP |-> frame[j].IP, Country |-> frame[j].Country,
         Continent |-> frame[j].Continent, CIDR |-> frame[j].CIDR]]

\* pandas.isna
isna(value) == value \in {None, NaN}

\* changed dropna_Country: no row is dropped
dropna_Country_skipped(frame) == frame

\* frame.dropna(subset=['Country'])
RECURSIVE dropna_Country(_)
dropna_Country(frame) ==
    IF Len(frame) = 0 THEN <<>>
    ELSE (IF isna(Head(frame).Country) THEN <<>> ELSE <<Head(frame)>>)
         \o dropna_Country(Tail(frame))

\* lines 220-221 (179-180): concat, sort, drop the helper column, dropna
merge_results(frames) ==
    dropna_Country(drop_OriginalIndex(sort_values(concat(frames))))

\* the list comprehension of executor.submit calls: one future per chunk
Submit ==
    /\ pc = "submit"
    /\ LET chunks == make_chunks(DataFrame(df), chunk_size)
       IN  futures' = [c \in 1 .. Len(chunks) |->
                          [chunk |-> chunks[c],
                           start_index |-> chunks[c][1].index,
                           position |-> c - 1,
                           state |-> "PENDING",
                           yielded |-> FALSE,
                           result |-> [raised |-> None, chunk |-> <<>>, errors |-> <<>>]]]
    /\ pc' = "as_completed"
    /\ UNCHANGED <<ipv4_data, ipv6_data, columns, df, chunk_size, is_text_file,
                   results, all_errors, output_file, ip_series, ret,
                   start_ip, end_ip, cidr_list>>
    /\ UNCHANGED load_vars
    /\ UNCHANGED tcping_vars

\* changed RunChunk: the worker removes the first row of the IPv4 table
RunChunk_pops_table(c) ==
    /\ pc \in {"as_completed", "raised"}
    /\ futures[c].state = "PENDING"
    /\ futures' = [futures EXCEPT
                     ![c].state = "FINISHED",
                     ![c].result = process_chunk(futures[c].chunk, ipv4_data, ipv6_data,
                                                 columns, futures[c].start_index,
                                                 is_text_file)]
    /\ ipv4_data' = SubSeq(ipv4_data, 2, Len(ipv4_data))
    /\ UNCHANGED <<ipv6_data, columns, df, chunk_size, is_text_file, pc,
                   results, all_errors, output_file, ip_series, ret,
                   start_ip, end_ip, cidr_list>>
    /\ UNCHANGED load_vars
    /\ UNCHANGED tcping_vars

\* a worker process runs process_chunk for one submitted chunk
RunChunk(c) ==
    /\ pc \in {"as_completed", "raised"}
    /\ futures[c].state = "PENDING"
    /\ futures' = [futures EXCEPT
                     ![c].state = "FINISHED",
                     ![c].result = process_chunk(futures[c].chunk, ipv4_data, ipv6_data,
                                                 columns, futures[c].start_index,
                                                 is_text_file)]
    /\ UNCHANGED <<ipv4_data, ipv6_data, columns, df, chunk_size, is_text_file, pc,
                   results, all_errors, output_file, ip_series, ret,
                   start_ip, end_ip, cidr_list>>
    /\ UNCHANGED load_vars
    /\ UNCHANGED tcping_vars

\* changed Collect: all_errors is assigned, not extended
Collect_assigns_errors(c) ==
    /\ pc = "as_completed"
    /\ futures[c].state = "FINISHED"
    /\ ~futures[c].yielded
    /\ futures' = [futures EXCEPT ![c].yielded = TRUE]
    /\ IF futures[c].result.raised # None
       THEN /\ pc' = "raised"
            /\ UNCHANGED <<results, all_errors>>
       ELSE /\ results' = Append(results, futures[c].result.chunk)
            /\ all_errors' = futures[c].result.errors
            /\ pc' = pc
    /\ UNCHANGED <<ipv4_data, ipv6_data, columns, df, chunk_size, is_text_file,
                   output_file, ip_series, ret, start_ip, end_ip, cidr_list>>
    /\ UNCHANGED load_vars
    /\ UNCHANGED tcping_vars

\* one iteration of the loop over as_completed(futures): future.result()
\* re-raises what the worker raised and the main process ends without output
Collect(c) ==
    /\ pc = "as_completed"
    /\ futures[c].state = "FINISHED"
    /\ ~futures[c].yielded
    /\ futures' = [futures EXCEPT ![c].yielded = TRUE]
    /\ IF futures[c].result.raised # None
       THEN /\ pc' = "raised"
            /\ UNCHANGED <<results, all_errors>>
       ELSE /\ results' = Append(results, futures[c].result.chunk)
            /\ all_errors' = all_errors \o futures[c].result.errors
            /\ pc' = pc
    /\ UNCHANGED <<ipv4_data, ipv6_data, columns, df, chunk_size, is_text_file,
                   output_file, ip_series, ret, start_ip, end_ip, cidr_list>>
    /\ UNCHANGED load_vars
    /\ UNCHANGED tcping_vars

\* changed Merge: the merge does not wait for the loop over as_completed
Merge_before_all_yielded ==
    /\ pc = "as_completed"
    /\ IF Len(results) = 0
       THEN pc' = "raised" /\ UNCHANGED output_file
       ELSE pc' = "done" /\ output_file' = merge_results(results)
    /\ UNCHANGED <<ipv4_data, ipv6_data, columns, df, chunk_size, is_text_file,
                   futures, results, all_errors, ip_series, ret,
                   start_ip, end_ip, cidr_list>>
    /\ UNCHANGED load_vars
    /\ UNCHANGED tcping_vars

\* after the loop: merge and save_output; pd.concat([]) raises ValueError
Merge ==
    /\ pc = "as_completed"
    /\ \A c \in 1 .. Len(futures) : futures[c].yielded
    /\ IF Len(results) = 0
       THEN pc' = "raised" /\ UNCHANGED output_file
       ELSE pc' = "done" /\ output_file' = merge_results(results)
    /\ UNCHANGED <<ipv4_data, ipv6_data, columns, df, chunk_size, is_text_file,
                   futures, results, all_errors, ip_series, ret,
                   start_ip, end_ip, cidr_list>>
    /\ UNCHANGED load_vars
    /\ UNCHANGED tcping_vars

\* a direct call of find_country_continent_cidr on ip_series
FindCall ==
    /\ pc = "call"
    /\ ret' = find_country_continent_cidr(ip_series, ipv4_data, ipv6_data, columns,
                                          0, is_text_file)
    /\ pc' = "returned"
    /\ UNCHANGED <<ipv4_data, ipv6_data, columns, df, chunk_size, is_text_file,
                   futures, results, all_errors, output_file, ip_series,
                   start_ip, end_ip, cidr_list>>
    /\ UNCHANGED load_vars
    /\ UNCHANGED tcping_vars

\* a call of ip_range_to_cidr(start_ip, end_ip)
IpRangeToCidr ==
    /\ pc = "export"
    /\ cidr_list' = ip_range_to_cidr(start_ip, end_ip)
    /\ pc' = "exported"
    /\ UNCHANGED <<ipv4_data, ipv6_data, columns, df, chunk_size, is_text_file,
                   futures, results, all_errors, output_file, ip_series, ret,
                   start_ip, end_ip>>
    /\ UNCHANGED load_vars
    /\ UNCHANGED tcping_vars

(***************************************************************************)
(* Initial states.  load_geoip_data has run: the two tables hold the rows  *)
(* of the GeoIP file in file order.  The loader does not sort, merge or    *)
(* validate rows, so a table may be unsorted, overlapping, hold duplicate  *)
(* intervals and rows with start_ip > end_ip; a country cell may be NaN.   *)
(***************************************************************************)
AllColumns == {"start_ip", "end_ip", "country", "continent_name"}
\* dialects 2 and 3 of detect_format_and_load yield no continent_name column
ColumnSets == {AllColumns, AllColumns \ {"continent_name"}}

GeoRow(s, e, country, continent) ==
    [start_ip |-> s, end_ip |-> e, country |-> country, continent_name |-> continent]

\* a row as the DataFrame with columns cols holds it
with_columns(row, cols) ==
    IF "continent_name" \in cols THEN row
    ELSE [row EXCEPT !.continent_name = None]

table_with_columns(data, cols) == [j \in 1 .. Len(data) |-> with_columns(data[j], cols)]

\* a small table: two IPv4 rows (the second with the country cell 'NA' of
\* Namibia, which read_csv reads as NaN) and one IPv6 row
SampleV4 == <<GeoRow(0, 1, "US", "North America"), GeoRow(2, 2, NaN, "Africa")>>
SampleV6 == <<GeoRow(0, 3, "DE", "Europe")>>

\* input texts: matched, matched with a NaN country, unmatched, unparsable,
\* a matched IPv6 address (CIDR texts are resolved under SpecResolver)
SampleQueries ==
    {AddrText(4, 0), AddrText(4, 2), AddrText(4, 3), JunkText,
     AddrText(6, 1)}

SeqsUpTo(S, n) == UNION {[1 .. m -> S] : m \in 0 .. n}

Idle ==
    /\ futures = <<>> /\ results = <<>> /\ all_errors = <<>> /\ output_file = None
    /\ ret = None /\ cidr_list = None

\* batch_tcping is not running
TcpingIdle ==
    /\ attempts = 0 /\ use_paping = FALSE /\ progress_counter = 0 /\ total_pings = 0
    /\ targets = <<>>

\* no GeoIP file is being loaded
LoadIdle ==
    /\ csv_file = <<>> /\ args = None /\ format_msg = None /\ load_error = None
    /\ country_data = <<>> /\ stderr = <<>> /\ lines = <<>>

\* process_text_file / process_excel about to submit the chunks
Init ==
    /\ \E cols \in ColumnSets :
          /\ columns = cols
          /\ ipv4_data = table_with_columns(SampleV4, cols)
          /\ ipv6_data = table_with_columns(SampleV6, cols)
    /\ df \in SeqsUpTo(SampleQueries, MaxItems)
    /\ chunk_size \in 1 .. MaxChunk
    /\ is_text_file \in BOOLEAN
    /\ pc = "submit"
    /\ ip_series = <<>> /\ start_ip = JunkText /\ end_ip = JunkText
    /\ Idle
    /\ TcpingIdle
    /\ LoadIdle

Next ==
    \/ Submit
    \/ \E c \in 1 .. Len(futures) : RunChunk(c)
    \/ \E c \in 1 .. Len(futures) : Collect(c)
    \/ Merge

Spec == Init /\ [][Next]_vars

\* the tables a direct call of the resolver is checked on: every IPv4 table
\* of at most two rows over all pairs of addresses, or every one-row IPv6 table
Intervals(v) == Addresses(v) \X Addresses(v)

OneRowTables(v) ==
    {<<GeoRow(i[1], i[2], c, n)>> :
        i \in Intervals(v), c \in {"US", NaN}, n \in {"North America"}}

TwoRowTables(v) ==
    {<<GeoRow(i[1], i[2], "US", "North America"), GeoRow(j[1], j[2], "DE", "Europe")>> :
        i \in Intervals(v), j \in Intervals(v)}

AddrTexts(v) == {AddrText(v, a) : a \in Addresses(v)}
\* "a/p" for every prefix length up to one more than the family allows
CidrTexts(v) == {CidrText(v, a, p) : a \in Addresses(v), p \in 0 .. max_prefixlen(v) + 1}

InitResolver ==
    /\ \/ /\ \/ ipv4_data \in {<<>>} \cup OneRowTables(4) /\ columns \in ColumnSets
             \/ ipv4_data \in TwoRowTables(4) /\ columns = AllColumns
          /\ ipv6_data = SampleV6
          /\ \E q \in AddrTexts(4) \cup CidrTexts(4) \cup {JunkText, AddrText(6, 1)} :
                ip_series = <<q>>
       \/ /\ ipv4_data = SampleV4
          /\ ipv6_data \in OneRowTables(6) /\ columns \in ColumnSets
          /\ \E q \in AddrTexts(6) \cup CidrTexts(6) : ip_series = <<q>>
    /\ df = <<>> /\ chunk_size = 1 /\ is_text_file = FALSE
    /\ pc = "call"
    /\ start_ip = JunkText /\ end_ip = JunkText
    /\ Idle
    /\ TcpingIdle
    /\ LoadIdle

NextResolver == FindCall

SpecResolver == InitResolver /\ [][NextResolver]_vars

\* the calls of ip_range_to_cidr: every pair of addresses of one family, in
\* either order, and the texts it rejects
InitExport ==
    /\ \/ \E v \in {4, 6} : start_ip \in AddrTexts(v) /\ end_ip \in AddrTexts(v)
       \/ start_ip = AddrText(4, 0) /\ end_ip \in {JunkText, AddrText(6, 1)}
    /\ ipv4_data = <<>> /\ ipv6_data = <<>> /\ columns = AllColumns
    /\ df = <<>> /\ chunk_size = 1 /\ is_text_file = FALSE
    /\ pc = "export"
    /\ ip_series = <<>>
    /\ Idle
    /\ TcpingIdle
    /\ LoadIdle

NextExport == IpRangeToCidr

SpecExport == InitExport /\ [][NextExport]_vars

(***************************************************************************)
(* The two loaders of a GeoIP CSV file.  load_geoip_data (batch query)     *)
(* reads the file with pandas; read_csv_file of geoip_csv_export.py reads  *)
(* it with csv.reader and hands it to detect_format_and_collect.  A cell   *)
(* is a text value as above; a cell that is not address-shaped is          *)
(* Word(w), whose k is the text itself.                                    *)
(***************************************************************************)
Word(w) == [k |-> w, v |-> 0, a |-> 0, p |-> 0]

\* '.' in field: the dotted-decimal texts
has_dot(field) == field.k \in {"addr", "cidr"} /\ field.v = 4
\* ':' in start_ip
has_colon(field) == field.k \in {"addr", "cidr"} /\ field.v = 6

IpinfoHeader ==
    <<Word("start_ip"), Word("end_ip"), Word("country"), Word("country_name"),
      Word("continent"), Word("continent_name")>>
IpapiHeader ==
    <<Word("ip_version"), Word("start_ip"), Word("end_ip"), Word("continent"),
      Word("country_code"), Word("country"), Word("state"), Word("city"),
      Word("zip"), Word("timezone"), Word("latitude"), Word("longitude"),
      Word("accuracy")>>

\* changed detect_format: the ipapi.is test comes first
detect_format_ipapi_first(d1, d2, d3) ==
    IF d3 THEN 3 ELSE IF d1 THEN 1 ELSE IF d2 THEN 2 ELSE 0

\* the if / elif / elif chain of both detectors: the number of the first
\* dialect whose test succeeds, 0 when none does
detect_format(d1, d2, d3) ==
    IF d1 THEN 1 ELSE IF d2 THEN 2 ELSE IF d3 THEN 3 ELSE 0

format_name(dialect) ==
    CASE dialect = 1 -> "ipinfo.io country.csv"
      [] dialect = 2 -> "dbip-country-lite"
      [] dialect = 3 -> "ipapi.is csv"
      [] OTHER -> None

\* pd.read_csv with its defaults: the first line gives the column names, the
\* other lines are the rows; an empty or 'NA' cell and a cell missing at the
\* end of a short line are NaN
na_values == {"", "NA", "NaN"}
pd_read_csv(file) ==
    LET names == Head(file)
        cell(line, j) == IF j > Len(line) \/ line[j].k \in na_values
                         THEN Word(NaN) ELSE line[j]
    IN  [names |-> names,
         rows |-> [r \in 1 .. Len(file) - 1 |->
                      [j \in 1 .. Len(names) |-> cell(file[r + 1], j)]]]

\* name in geoip_data.columns, for every name wanted
in_columns(names, wanted) ==
    \A w \in wanted : \E j \in 1 .. Len(names) : names[j] = Word(w)

\* returns the exception raised (None if none), the format reported on
\* stderr, and the column names of the DataFrame returned
detect_format_and_load(geoip_data) ==
    LET names == geoip_data.names
        rows == geoip_data.rows
        d1 == in_columns(names, {"start_ip", "end_ip", "country"})
        shape3 == Len(names) = 3
        d2 == shape3 /\ Len(rows) > 0 /\ \A j \in 1 .. 2 : has_dot(rows[1][j])
        d3 == in_columns(names, {"ip_version", "start_ip", "end_ip", "country_code"})
        dialect == detect_format(d1, d2, d3)
    IN  IF ~d1 /\ shape3 /\ Len(rows) = 0
        THEN \* geoip_data.iloc[0, :2] of a frame without rows
             [raised |-> "IndexError", format |-> None, names |-> names]
        ELSE CASE dialect = 1 ->
                    [raised |-> None, format |-> format_name(1), names |-> names]
               [] dialect = 2 ->
                    [raised |-> None, format |-> format_name(2),
                     names |-> <<Word("start_ip"), Word("end_ip"), Word("country")>>]
               [] dialect = 3 ->
                    [raised |-> None, format |-> format_name(3),
                     names |-> [j \in 1 .. Len(names) |->
                                   IF names[j] = Word("country_code")
                                   THEN Word("country") ELSE names[j]]]
               [] OTHER ->
                    [raised |-> "Unknown CSV format.", format |-> None, names |-> names]

column_of(names, w) == CHOOSE j \in 1 .. Len(names) : names[j] = Word(w)

\* read_csv_file, detect_format_and_load, the two .apply(ipaddress.ip_address)
\* (a ValueError of any row ends the load) and the split by family
load_geoip_data(geoip_file) ==
    LET geoip_data == pd_read_csv(geoip_file)
        det == detect_format_and_load(geoip_data)
        rows == geoip_data.rows
        names == det.names
        cols == {names[j].k : j \in 1 .. Len(names)}
        s == column_of(names, "start_ip")
        e == column_of(names, "end_ip")
        c == column_of(names, "country")
        continent(row) == IF "continent_name" \in cols
                          THEN row[column_of(names, "continent_name")].k ELSE None
        record(row) == GeoRow(row[s].a, row[e].a, row[c].k, continent(row))
        records == [r \in 1 .. Len(rows) |-> record(rows[r])]
        version_is(v) == [r \in 1 .. Len(rows) |-> rows[r][s].v = v]
        nothing == [raised |-> None, format |-> det.format, columns |-> {},
                    ipv4_data |-> <<>>, ipv6_data |-> <<>>]
    IN  IF det.raised # None
        THEN [nothing EXCEPT !.raised = det.raised]
        ELSE IF \E r \in 1 .. Len(rows) :
                   ~ip_address_ok(rows[r][s]) \/ ~ip_address_ok(rows[r][e])
        THEN [nothing EXCEPT !.raised = "ValueError"]
        ELSE [raised |-> None, format |-> det.format, columns |-> cols,
              ipv4_data |-> boolean_index(records, version_is(4)),
              ipv6_data |-> boolean_index(records, version_is(6))]

\* ipaddress.IPv4Address / IPv6Address accept one address of their family
IPvAddress_ok(text, v) == text.k = "addr" /\ text.v = v /\ text.a \in Addresses(v)

Max3(x, y, z) == IF x >= y /\ x >= z THEN x ELSE IF y >= z THEN y ELSE z

\* one iteration of the loop of collect; st holds country, line_num, what was
\* written to stderr and the exception raised
collect_row(st, row, start_ip_col, end_ip_col, country_code_col) ==
    LET line_num == st.line_num + 1 IN
    IF Len(row) <= Max3(start_ip_col, end_ip_col, country_code_col)
    THEN [st EXCEPT !.line_num = line_num, !.stderr = Append(@, line_num)]
    ELSE LET first == row[start_ip_col + 1]
             last == row[end_ip_col + 1]
             country_code == row[country_code_col + 1]
             country == IF country_code \in DOMAIN st.country THEN st.country
                        ELSE [x \in DOMAIN st.country \cup {country_code} |->
                                 IF x = country_code
                                 THEN [name |-> country_code,
                                       pool_v4 |-> <<>>, pool_v6 |-> <<>>]
                                 ELSE st.country[x]]
         IN  IF has_colon(first)
             THEN IF IPvAddress_ok(first, 6) /\ IPvAddress_ok(last, 6)
                  THEN [st EXCEPT !.line_num = line_num,
                                  !.country = [country EXCEPT ![country_code].pool_v6 =
                                                  Append(@, <<first.a, last.a>>)]]
                  ELSE [st EXCEPT !.line_num = line_num, !.country = country,
                                  !.raised = "AddressValueError"]
             ELSE IF IPvAddress_ok(first, 4) /\ IPvAddress_ok(last, 4)
                  THEN [st EXCEPT !.line_num = line_num,
                                  !.country = [country EXCEPT ![country_code].pool_v4 =
                                                  Append(@, <<first.a, last.a>>)]]
                  ELSE [st EXCEPT !.line_num = line_num, !.country = country,
                                  !.raised = "AddressValueError"]

RECURSIVE collect_loop(_, _, _, _, _)
collect_loop(st, csv_rows, start_ip_col, end_ip_col, country_code_col) ==
    IF Len(csv_rows) = 0 \/ st.raised # None THEN st
    ELSE collect_loop(collect_row(st, Head(csv_rows), start_ip_col, end_ip_col,
                                  country_code_col),
                      Tail(csv_rows), start_ip_col, end_ip_col, country_code_col)

collect(csv_rows, start_ip_col, end_ip_col, country_code_col, existing_country_data) ==
    collect_loop([country |-> existing_country_data, line_num |-> 1,
                  stderr |-> <<>>, raised |-> None],
                 csv_rows, start_ip_col, end_ip_col, country_code_col)

\* returns what collect returns and the format written to stdout
detect_format_and_collect(file, ignore_first_row, start_ip_col, end_ip_col, country_code_col, existing_country_data) ==
    LET first_row == Head(file)
        d1 == first_row = IpinfoHeader
        d2 == Len(first_row) = 3 /\ \A j \in 1 .. 2 : has_dot(first_row[j])
        d3 == first_row = IpapiHeader
        dialect == detect_format(d1, d2, d3)
        ignore == IF dialect \in {1, 3} THEN TRUE ELSE ignore_first_row
        s == IF dialect \in {1, 2} THEN 0 ELSE IF dialect = 3 THEN 1 ELSE start_ip_col
        e == IF dialect \in {1, 2} THEN 1 ELSE IF dialect = 3 THEN 2 ELSE end_ip_col
        c == IF dialect \in {1, 2} THEN 2 ELSE IF dialect = 3 THEN 4 ELSE country_code_col
        csv_rows == IF ignore THEN Tail(file) ELSE file
    IN  [format |-> format_name(dialect),
         collected |-> collect(csv_rows, s, e, c, existing_country_data)]

\* load_geoip_data(geoip_file) of the batch query
LoadGeoipData ==
    /\ pc = "load"
    /\ LET loaded == load_geoip_data(csv_file) IN
          /\ load_error' = loaded.raised
          /\ format_msg' = loaded.format
          /\ columns' = loaded.columns
          /\ ipv4_data' = loaded.ipv4_data
          /\ ipv6_data' = loaded.ipv6_data
          /\ pc' = IF loaded.raised = None THEN "loaded" ELSE "load_raised"
    /\ UNCHANGED <<df, chunk_size, is_text_file, futures, results, all_errors,
                   output_file, ip_series, ret, start_ip, end_ip, cidr_list,
                   csv_file, args, country_data, stderr, lines>>
    /\ UNCHANGED tcping_vars

\* read_csv_file of geoip_csv_export.py on the first file: country_data is
\* still empty
ReadCsvFile ==
    /\ pc = "load"
    /\ LET read == detect_format_and_collect(csv_file, args.ignore_first_row,
                                             args.start_ip_col, args.end_ip_col,
                                             args.country_code_col, <<>>) IN
          /\ load_error' = read.collected.raised
          /\ format_msg' = read.format
          /\ country_data' = read.collected.country
          /\ stderr' = read.collected.stderr
          /\ pc' = IF read.collected.raised = None THEN "collected" ELSE "collect_raised"
    /\ UNCHANGED <<ipv4_data, ipv6_data, columns, df, chunk_size, is_text_file,
                   futures, results, all_errors, output_file, ip_series, ret,
                   start_ip, end_ip, cidr_list, csv_file, args, lines>>
    /\ UNCHANGED tcping_vars

(***************************************************************************)
(* The GeoIP files the loaders are run on: a header line or none, and up   *)
(* to MaxRows data lines.  No line has more cells than the first one.      *)
(***************************************************************************)
MaxRows == 2        \* most data lines after the first line of a file

HeaderQuery == <<Word("start_ip"), Word("end_ip"), Word("country")>>
HeaderCode ==
    <<Word("ip_version"), Word("start_ip"), Word("end_ip"), Word("country_code")>>
HeaderOther3 == <<Word("first_ip"), Word("last_ip"), Word("cc")>>
HeaderOther4 == <<Word("first_ip"), Word("last_ip"), Word("cc"), Word("name")>>
Headers == {IpinfoHeader, IpapiHeader, HeaderQuery, HeaderCode, HeaderOther3, HeaderOther4}

\* ranges as the file gives them: a good IPv4 range, one with start > end,
\* a good IPv6 range, an unparsable start address, the country code 'NA'
Ranges ==
    {[s |-> AddrText(4, 0), e |-> AddrText(4, 1), c |-> Word("US")],
     [s |-> AddrText(4, 1), e |-> AddrText(4, 0), c |-> Word("US")],
     [s |-> AddrText(6, 0), e |-> AddrText(6, 1), c |-> Word("DE")],
     [s |-> JunkText, e |-> AddrText(4, 1), c |-> Word("US")],
     [s |-> AddrText(4, 0), e |-> AddrText(4, 1), c |-> Word("NA")]}

\* the line of a range under a header
line_for(header, t) ==
    [j \in 1 .. Len(header) |->
        LET name == header[j].k IN
        CASE name \in {"start_ip", "first_ip"} -> t.s
          [] name \in {"end_ip", "last_ip"} -> t.e
          [] name \in {"country_code", "cc"} -> t.c
          [] name = "country" ->
                IF in_columns(header, {"country_code"}) THEN Word("Name") ELSE t.c
          [] name = "ip_version" -> IF t.s.v = 6 THEN Word("6") ELSE Word("4")
          [] name = "continent_name" -> Word("Europe")
          [] OTHER -> Word("x")]

\* the data lines under a header, one of them cut after its second cell
DataLines(header) ==
    {line_for(header, t) : t \in Ranges}
       \cup {SubSeq(line_for(header, t), 1, 2) : t \in {tt \in Ranges : tt.c = Word("DE")}}

CsvFiles ==
    UNION {{<<h>> \o body : body \in SeqsUpTo(DataLines(h), MaxRows)} : h \in Headers}
       \cup {<<line_for(HeaderQuery, t)>> \o body :
                t \in Ranges, body \in SeqsUpTo(DataLines(HeaderQuery), MaxRows - 1)}

\* the command line of geoip_csv_export.py: the defaults, --ignore_first_row,
\* and the columns of a file with a leading ip_version column
ArgSets ==
    {[ignore_first_row |-> i, start_ip_col |-> c[1], end_ip_col |-> c[2],
      country_code_col |-> c[3]] : i \in BOOLEAN, c \in {<<0, 1, 2>>, <<1, 2, 3>>}}

\* a GeoIP file about to be loaded, by either tool
InitLoad ==
    /\ csv_file \in CsvFiles
    /\ args \in ArgSets
    /\ format_msg = None /\ load_error = None /\ country_data = <<>> /\ stderr = <<>>
    /\ lines = <<>>
    /\ ipv4_data = <<>> /\ ipv6_data = <<>> /\ columns = {}
    /\ df = <<>> /\ chunk_size = 1 /\ is_text_file = FALSE
    /\ pc = "load"
    /\ ip_series = <<>> /\ start_ip = JunkText /\ end_ip = JunkText
    /\ Idle
    /\ TcpingIdle

NextLoad == LoadGeoipData \/ ReadCsvFile

SpecLoad == InitLoad /\ [][NextLoad]_vars

(***************************************************************************)
(* The input text file of process_text_file.  A line is modelled by what   *)
(* the two regular expressions of line 197 see of it: the address text it  *)
(* starts with (Word("") if it has none), whether that text begins with    *)
(* ':' (an IPv6 text written as '::...'), and what follows the text: "",   *)
(* a ":80" port, " text" after whitespace, or a "#c" comment.              *)
(***************************************************************************)
\* the hexadecimal digits before the first ':' of an IPv6 text, e.g. '2001'
\* of '2001:db8::1': text that no parser accepts
first_group(text) == [k |-> "group", v |-> text.v, a |-> text.a, p |-> 0]

\* re.split(r'[:\s]', re.sub(r'#.*', '', line).strip())[0]
first_token(line) ==
    IF has_colon(line.text)
    THEN IF line.colon_first THEN Word("") ELSE first_group(line.text)
    ELSE line.text

\* the list comprehension of line 197: the first tokens that are not empty
RECURSIVE ip_addresses(_)
ip_addresses(file_lines) ==
    IF Len(file_lines) = 0 THEN <<>>
    ELSE (IF first_token(Head(file_lines)) = Word("") THEN <<>>
          ELSE <<first_token(Head(file_lines))>>)
         \o ip_addresses(Tail(file_lines))

\* process_text_file up to the DataFrame of its items; the items are then
\* resolved as one chunk
ReadLines ==
    /\ pc = "readlines"
    /\ df' = ip_addresses(lines)
    /\ ip_series' = ip_addresses(lines)
    /\ pc' = "call"
    /\ UNCHANGED <<ipv4_data, ipv6_data, columns, chunk_size, is_text_file,
                   futures, results, all_errors, output_file, ret,
                   start_ip, end_ip, cidr_list,
                   csv_file, args, format_msg, load_error, country_data, stderr, lines>>
    /\ UNCHANGED tcping_vars

MaxLines == 2       \* most lines of the input text file

TextLine(text, colon_first, tail) ==
    [text |-> text, colon_first |-> colon_first, tail |-> tail]

Tails == {"", ":80", " text", "#c"}

TextLines ==
    {TextLine(t, FALSE, tail) :
        t \in {AddrText(4, 0), CidrText(4, 1, 1), AddrText(6, 1), CidrText(6, 0, 1),
               JunkText, Word("")},
        tail \in Tails}
       \cup {TextLine(AddrText(6, 1), TRUE, tail) : tail \in Tails}

InitText ==
    /\ lines \in SeqsUpTo(TextLines, MaxLines)
    /\ ipv4_data = SampleV4 /\ ipv6_data = SampleV6 /\ columns = AllColumns
    /\ df = <<>> /\ chunk_size = 1 /\ is_text_file = TRUE
    /\ pc = "readlines"
    /\ ip_series = <<>> /\ start_ip = JunkText /\ end_ip = JunkText
    /\ Idle
    /\ TcpingIdle
    /\ csv_file = <<>> /\ args = None /\ format_msg = None /\ load_error = None
    /\ country_data = <<>> /\ stderr = <<>>

NextText == ReadLines \/ FindCall

SpecText == InitText /\ [][NextText]_vars

(***************************************************************************)
(* ipinfo_io_country_csv_batch_query.py, the batch tool for the ipinfo.io  *)
(* country.csv alone.  Its chunking, submitting and collecting are those   *)
(* of geoip_csv_batch_query.py; its resolver has no CIDR branch and        *)
(* reports no unmatched item, and its merge drops no row.                  *)
(***************************************************************************)
IpinfoSkippedError(ip, row) == <<"[Skiped] Error processing IP", ip, row>>

\* one iteration of the loop over ip_series, for the item at offset i
ipinfo_resolve_item(ip, i, v4_data, v6_data, cols, start_index, text_file) ==
    IF ~ip_address_ok(ip)
    THEN [raised |-> None, Country |-> None, Continent |-> None, CIDR |-> None,
          errors |-> <<IpinfoSkippedError(ip, row_number(start_index, i, text_file))>>]
    ELSE LET ip_addr == ip_address(ip)
             data == family_data(ip_addr.version, v4_data, v6_data)
             match == boolean_index(data,
                         [j \in 1 .. Len(data) |-> addr_mask(data[j], ip_addr)])
         IN  IF Len(match) > 0
             THEN LET row == iloc0(match)
                      cidr == summarize_address_range(row.start_ip, row.end_ip,
                                                      ip_addr.version)
                  IN  IF "continent_name" \notin cols
                      THEN [raised |-> "KeyError", Country |-> None, Continent |-> None,
                            CIDR |-> None, errors |-> <<>>]
                      ELSE [raised |-> None, Country |-> row.country,
                            Continent |-> row.continent_name, CIDR |-> cidr,
                            errors |-> <<>>]
             ELSE [raised |-> None, Country |-> None, Continent |-> None,
                   CIDR |-> None, errors |-> <<>>]

ipinfo_find_country_continent_cidr(series, v4_data, v6_data, cols, start_index, text_file) ==
    LET item == [j \in 1 .. Len(series) |->
                    ipinfo_resolve_item(series[j], j - 1, v4_data, v6_data, cols,
                                        start_index, text_file)]
    IN  IF \E j \in 1 .. Len(series) : item[j].raised # None
        THEN [raised |-> "KeyError", countries |-> <<>>, continents |-> <<>>,
              cidrs |-> <<>>, errors |-> <<>>]
        ELSE [raised |-> None,
              countries |-> [j \in 1 .. Len(series) |-> item[j].Country],
              continents |-> [j \in 1 .. Len(series) |-> item[j].Continent],
              cidrs |-> [j \in 1 .. Len(series) |-> item[j].CIDR],
              errors |-> extend_all([j \in 1 .. Len(series) |-> item[j].errors])]

ipinfo_process_chunk(chunk, v4_data, v6_data, cols, start_index, text_file) ==
    LET series == [j \in 1 .. Len(chunk) |-> chunk[j].IP]
        r == ipinfo_find_country_continent_cidr(series, v4_data, v6_data, cols,
                                                start_index, text_file)
    IN  IF r.raised # None
        THEN [raised |-> r.raised, chunk |-> <<>>, errors |-> <<>>]
        ELSE [raised |-> None,
              chunk |-> [j \in 1 .. Len(chunk) |->
                            [index |-> chunk[j].index, IP |-> chunk[j].IP,
                             Country |-> r.countries[j],
                             Continent |-> r.continents[j],
                             CIDR |-> r.cidrs[j],
                             OriginalIndex |-> chunk[j].index]],
              errors |-> r.errors]

\* changed ipinfo_merge_results: rows without a country are dropped
ipinfo_merge_results_dropna(frames) == merge_results(frames)

\* pd.concat(results).sort_values(by='OriginalIndex').drop(columns=['OriginalIndex'])
ipinfo_merge_results(frames) == drop_OriginalIndex(sort_values(concat(frames)))

\* a worker process runs process_chunk of the ipinfo tool
IpinfoRunChunk(c) ==
    /\ pc \in {"as_completed", "raised"}
    /\ futures[c].state = "PENDING"
    /\ futures' = [futures EXCEPT
                     ![c].state = "FINISHED",
                     ![c].result = ipinfo_process_chunk(futures[c].chunk, ipv4_data,
                                                        ipv6_data, columns,
                                                        futures[c].start_index,
                                                        is_text_file)]
    /\ UNCHANGED <<ipv4_data, ipv6_data, columns, df, chunk_size, is_text_file, pc,
                   results, all_errors, output_file, ip_series, ret,
                   start_ip, end_ip, cidr_list>>
    /\ UNCHANGED load_vars
    /\ UNCHANGED tcping_vars

\* after the loop: merge and save_output; pd.concat([]) raises ValueError
IpinfoMerge ==
    /\ pc = "as_completed"
    /\ \A c \in 1 .. Len(futures) : futures[c].yielded
    /\ IF Len(results) = 0
       THEN pc' = "raised" /\ UNCHANGED output_file
       ELSE pc' = "done" /\ output_file' = ipinfo_merge_results(results)
    /\ UNCHANGED <<ipv4_data, ipv6_data, columns, df, chunk_size, is_text_file,
                   futures, results, all_errors, ip_series, ret,
                   start_ip, end_ip, cidr_list>>
    /\ UNCHANGED load_vars
    /\ UNCHANGED tcping_vars

\* the tool reads country.csv of ipinfo.io, which has the column continent_name
InitIpinfo ==
    /\ columns = AllColumns
    /\ ipv4_data = SampleV4 /\ ipv6_data = SampleV6
    /\ df \in SeqsUpTo(SampleQueries, MaxItems)
    /\ chunk_size \in 1 .. MaxChunk
    /\ is_text_file \in BOOLEAN
    /\ pc = "submit"
    /\ ip_series = <<>> /\ start_ip = JunkText /\ end_ip = JunkText
    /\ Idle
    /\ TcpingIdle
    /\ LoadIdle

NextIpinfo ==
    \/ Submit
    \/ \E c \in 1 .. Len(futures) : IpinfoRunChunk(c)
    \/ \E c \in 1 .. Len(futures) : Collect(c)
    \/ IpinfoMerge

SpecIpinfo == InitIpinfo /\ [][NextIpinfo]_vars

(***************************************************************************)
(* batch_tcping.run_tests.  The main process submits one task per target   *)
(* to a process pool, waits in a loop until progress_counter.value has     *)
(* reached total_pings, then collects the results and saves them.  The     *)
(* workers add to progress_counter under the lock: test_port_with_python   *)
(* once per attempt, test_port_with_paping once per line that paping       *)
(* prints.  What paping prints for a target is not the tool's to decide:   *)
(* a target carries the number of lines (none when Popen raises, as for a  *)
(* missing paping binary or an unresolved host).                           *)
(***************************************************************************)
MaxTargets == 2         \* most (target, port) pairs
MaxAttempts == 2        \* most attempts per target
MaxOutputLines == 3     \* most lines paping prints for one target

\* the dictionary comprehension of executor.submit calls
TcpingSubmit ==
    /\ pc = "run_tests"
    /\ futures' = [c \in 1 .. Len(targets) |->
                      [state |-> "RUNNING", counted |-> 0, yielded |-> FALSE,
                       raised |-> None]]
    /\ pc' = "wait"
    /\ UNCHANGED <<ipv4_data, ipv6_data, columns, df, chunk_size, is_text_file,
                   results, all_errors, output_file, ip_series, ret,
                   start_ip, end_ip, cidr_list>>
    /\ UNCHANGED load_vars
    /\ UNCHANGED tcping_vars

\* test_port_with_python: one pass of the loop over range(attempts)
PythonAttempt(c) ==
    /\ pc \in {"wait", "as_completed"}
    /\ ~use_paping
    /\ futures[c].state = "RUNNING"
    /\ futures[c].counted < attempts
    /\ futures' = [futures EXCEPT ![c].counted = @ + 1]
    /\ progress_counter' = progress_counter + 1
    /\ UNCHANGED <<ipv4_data, ipv6_data, columns, df, chunk_size, is_text_file, pc,
                   results, all_errors, output_file, ip_series, ret,
                   start_ip, end_ip, cidr_list>>
    /\ UNCHANGED load_vars
    /\ UNCHANGED <<attempts, use_paping, total_pings, targets>>

\* test_port_with_python after the loop: failed / attempted divides by zero
\* when attempts is 0
PythonReturn(c) ==
    /\ pc \in {"wait", "as_completed"}
    /\ ~use_paping
    /\ futures[c].state = "RUNNING"
    /\ futures[c].counted = attempts
    /\ futures' = [futures EXCEPT
                     ![c].state = "FINISHED",
                     ![c].raised = IF attempts = 0 THEN "ZeroDivisionError" ELSE None]
    /\ UNCHANGED <<ipv4_data, ipv6_data, columns, df, chunk_size, is_text_file, pc,
                   results, all_errors, output_file, ip_series, ret,
                   start_ip, end_ip, cidr_list>>
    /\ UNCHANGED load_vars
    /\ UNCHANGED tcping_vars

\* test_port_with_paping: one pass of the loop over process.stdout.readline()
PapingReadLine(c) ==
    /\ pc \in {"wait", "as_completed"}
    /\ use_paping
    /\ futures[c].state = "RUNNING"
    /\ futures[c].counted < targets[c].paping_lines
    /\ futures' = [futures EXCEPT ![c].counted = @ + 1]
    /\ progress_counter' = progress_counter + 1
    /\ UNCHANGED <<ipv4_data, ipv6_data, columns, df, chunk_size, is_text_file, pc,
                   results, all_errors, output_file, ip_series, ret,
                   start_ip, end_ip, cidr_list>>
    /\ UNCHANGED load_vars
    /\ UNCHANGED <<attempts, use_paping, total_pings, targets>>

\* test_port_with_paping at the end of the output (or after Popen raised):
\* the output is parsed and returned
PapingReturn(c) ==
    /\ pc \in {"wait", "as_completed"}
    /\ use_paping
    /\ futures[c].state = "RUNNING"
    /\ futures[c].counted = targets[c].paping_lines
    /\ futures' = [futures EXCEPT ![c].state = "FINISHED"]
    /\ UNCHANGED <<ipv4_data, ipv6_data, columns, df, chunk_size, is_text_file, pc,
                   results, all_errors, output_file, ip_series, ret,
                   start_ip, end_ip, cidr_list>>
    /\ UNCHANGED load_vars
    /\ UNCHANGED tcping_vars

\* while progress_counter.value < total_pings: the loop is left when the test
\* fails; a pass of the loop changes the progress bar only
LeaveWaitLoop ==
    /\ pc = "wait"
    /\ ~(progress_counter < total_pings)
    /\ pc' = "as_completed"
    /\ UNCHANGED <<ipv4_data, ipv6_data, columns, df, chunk_size, is_text_file,
                   futures, results, all_errors, output_file, ip_series, ret,
                   start_ip, end_ip, cidr_list>>
    /\ UNCHANGED load_vars
    /\ UNCHANGED tcping_vars

\* one pass of the loop over as_completed(future_to_target): an exception of
\* the task is printed, its result is not appended
TcpingCollect(c) ==
    /\ pc = "as_completed"
    /\ futures[c].state = "FINISHED"
    /\ ~futures[c].yielded
    /\ futures' = [futures EXCEPT ![c].yielded = TRUE]
    /\ results' = IF futures[c].raised = None
                  THEN Append(results, targets[c]) ELSE results
    /\ UNCHANGED <<ipv4_data, ipv6_data, columns, df, chunk_size, is_text_file, pc,
                   all_errors, output_file, ip_series, ret,
                   start_ip, end_ip, cidr_list>>
    /\ UNCHANGED load_vars
    /\ UNCHANGED tcping_vars

\* after the loops: sort, print, and save; selecting the columns of a frame
\* made of no result raises KeyError
TcpingSave ==
    /\ pc = "as_completed"
    /\ \A c \in 1 .. Len(futures) : futures[c].yielded
    /\ pc' = IF Len(results) = 0 THEN "raised" ELSE "saved"
    /\ UNCHANGED <<ipv4_data, ipv6_data, columns, df, chunk_size, is_text_file,
                   futures, results, all_errors, output_file, ip_series, ret,
                   start_ip, end_ip, cidr_list>>
    /\ UNCHANGED load_vars
    /\ UNCHANGED tcping_vars

Target(n, paping_lines) == [target |-> n, paping_lines |-> paping_lines]

\* run_tests has read the targets and computed total_pings
InitTcping ==
    /\ \E n \in 1 .. MaxTargets : \E out \in [1 .. n -> 0 .. MaxOutputLines] :
          targets = [c \in 1 .. n |-> Target(c, out[c])]
    /\ attempts \in 0 .. MaxAttempts
    /\ use_paping \in BOOLEAN
    /\ total_pings = Len(targets) * attempts
    /\ progress_counter = 0
    /\ pc = "run_tests"
    /\ ipv4_data = <<>> /\ ipv6_data = <<>> /\ columns = AllColumns
    /\ df = <<>> /\ chunk_size = 1 /\ is_text_file = FALSE
    /\ ip_series = <<>> /\ start_ip = JunkText /\ end_ip = JunkText
    /\ futures = <<>> /\ results = <<>> /\ all_errors = <<>> /\ output_file = None
    /\ ret = None /\ cidr_list = None
    /\ LoadIdle

NextTcping ==
    \/ TcpingSubmit
    \/ \E c \in 1 .. Len(futures) : PythonAttempt(c)
    \/ \E c \in 1 .. Len(futures) : PythonReturn(c)
    \/ \E c \in 1 .. Len(futures) : PapingReadLine(c)
    \/ \E c \in 1 .. Len(futures) : PapingReturn(c)
    \/ LeaveWaitLoop
    \/ \E c \in 1 .. Len(futures) : TcpingCollect(c)
    \/ TcpingSave

\* the main process and every worker process keep running: a step that can
\* be taken is taken
SpecTcping == InitTcping /\ [][NextTcping]_vars /\ WF_vars(NextTcping)

(***************************************************************************)
(* What the claims speak about, stated on sets of addresses and not by the *)
(* operators above.                                                        *)
(***************************************************************************)
\* the text is rejected by the parser that find_country_continent_cidr applies
Malformed(q) == q.k = "junk" \/ (q.k = "cidr" /\ q.p > max_prefixlen(q.v))

\* the addresses a well-formed text denotes: one address, or all addresses
\* that agree with a on the first p bits
BlockOf(q) ==
    IF q.k = "addr" THEN {q.a}
    ELSE {x \in Addresses(q.v) :
            x \div Pow2(max_prefixlen(q.v) - q.p) = q.a \div Pow2(max_prefixlen(q.v) - q.p)}

Contains(row, q) == \A x \in BlockOf(q) : row.start_ip <= x /\ x <= row.end_ip

TableOf(q) == IF q.v = 4 THEN ipv4_data ELSE ipv6_data

Containing(q) == {j \in 1 .. Len(TableOf(q)) : Contains(TableOf(q)[j], q)}

Matches(q) == ~Malformed(q) /\ Containing(q) # {}

FirstContaining(q) ==
    TableOf(q)[CHOOSE j \in Containing(q) : \A k \in Containing(q) : j <= k]

\* the row number an error message gives for the item at 1-based place p
RowOf(p) == IF is_text_file THEN p ELSE p + 1

\* how often a value occurs in a sequence
Count(seq, value) == Cardinality({k \in 1 .. Len(seq) : seq[k] = value})

OutputIndices == {output_file[k].index : k \in 1 .. Len(output_file)}

(***************************************************************************)
(* C1: when process_text_file/process_excel has written its output, the    *)
(* rows of the output are in strictly increasing original input position,  *)
(* whatever the chunk size and the order in which the chunks completed.    *)
(***************************************************************************)
C1_OutputInInputOrder ==
    pc = "done" =>
        \A k \in 1 .. Len(output_file) - 1 :
            output_file[k].index < output_file[k + 1].index

\* a finished run whose chunks were delivered out of order and that wrote two rows
C1_Witness ==
    /\ pc = "done" /\ Len(results) >= 2 /\ Len(output_file) >= 2
    /\ results[1][1].OriginalIndex > results[2][1].OriginalIndex

(***************************************************************************)
(* C2: when the run has finished, every input item whose text fails        *)
(* parsing has exactly one entry in all_errors (the entry naming its text  *)
(* and row), there are no further parse-error entries, and the item has    *)
(* no row in the output.                                                   *)
(***************************************************************************)
C2_MalformedOnceInErrors ==
    pc = "done" =>
        /\ \A p \in 1 .. Len(df) :
              Malformed(df[p]) =>
                 /\ Count(all_errors, SkippedError(df[p], RowOf(p))) = 1
                 /\ (p - 1) \notin OutputIndices
        /\ Cardinality({k \in 1 .. Len(all_errors) :
                            all_errors[k][1] = "[Skipped] Error processing IP"})
           = Cardinality({p \in 1 .. Len(df) : Malformed(df[p])})

\* a finished run of several chunks with malformed items in two of them
C2_Witness ==
    /\ pc = "done" /\ Len(futures) >= 2
    /\ Malformed(futures[1].chunk[1].IP)
    /\ Malformed(futures[2].chunk[1].IP)

C5_MatchedAlwaysInOutput ==
    pc = "done" => \A p \in 1 .. Len(df) : Matches(df[p]) => (p - 1) \in OutputIndices

(***************************************************************************)
(* C6: when several rows of the text's family contain the text, the        *)
(* resolver returns the country and continent of the one that comes first  *)
(* in the table (file order), also in unsorted and overlapping tables and  *)
(* tables with the same interval twice.                                    *)
(***************************************************************************)
C6_FirstInLoadOrderWins ==
    (pc = "returned" /\ Matches(ip_series[1]) /\ "continent_name" \in columns) =>
        /\ ret.raised = None
        /\ ret.countries = <<FirstContaining(ip_series[1]).country>>
        /\ ret.continents = <<FirstContaining(ip_series[1]).continent_name>>

\* both rows of an unsorted table contain the text and differ in country
C6_Witness ==
    /\ pc = "returned" /\ Len(ipv4_data) = 2 /\ ip_series[1].v = 4
    /\ ~Malformed(ip_series[1])
    /\ Containing(ip_series[1]) = {1, 2}
    /\ ipv4_data[1].start_ip > ipv4_data[2].start_ip
    /\ ipv4_data[1].country # ipv4_data[2].country

(***************************************************************************)
(* C7: a text with '/' that was matched (its result is a record, or the    *)
(* KeyError raised while reading the matched row) has a row in its         *)
(* family's table whose [start_ip, end_ip] holds both the first and the    *)
(* last address of the block; a block that every row only partly overlaps  *)
(* is not matched.                                                         *)
(***************************************************************************)
WasMatched == ret.raised = "KeyError" \/ (ret.raised = None /\ ret.errors = <<>>)

BlockFirst(q) == CHOOSE x \in BlockOf(q) : \A y \in BlockOf(q) : x <= y
BlockLast(q) == CHOOSE x \in BlockOf(q) : \A y \in BlockOf(q) : x >= y

C7_CidrMatchNeedsBothEnds ==
    (pc = "returned" /\ ip_series[1].k = "cidr" /\ WasMatched) =>
        \E j \in 1 .. Len(TableOf(ip_series[1])) :
            /\ TableOf(ip_series[1])[j].start_ip <= BlockFirst(ip_series[1])
            /\ TableOf(ip_series[1])[j].end_ip >= BlockLast(ip_series[1])

\* a block of several addresses whose first address lies in the only row
\* but whose last address does not, and that was not matched
C7_Witness ==
    /\ pc = "returned" /\ ip_series[1].k = "cidr" /\ ip_series[1].v = 4
    /\ ~Malformed(ip_series[1]) /\ Len(ipv4_data) = 1
    /\ ipv4_data[1].start_ip <= BlockFirst(ip_series[1])
    /\ ipv4_data[1].end_ip >= BlockFirst(ip_series[1])
    /\ ipv4_data[1].end_ip < BlockLast(ip_series[1])
    /\ ~WasMatched

(***************************************************************************)
(* C8: for every matched text, single address or CIDR, the cidr returned   *)
(* is the summarization of the [start_ip, end_ip] of the first row that    *)
(* contains it: it is a function of the matched row alone, so two texts    *)
(* matching the same row get the same cidr.                                *)
(***************************************************************************)
C8_CidrIsOfMatchedRow ==
    (pc = "returned" /\ Matches(ip_series[1]) /\ ret.raised = None) =>
        ret.cidrs = <<summarize_address_range(FirstContaining(ip_series[1]).start_ip,
                                              FirstContaining(ip_series[1]).end_ip,
                                              ip_series[1].v)>>

\* a matched text that denotes fewer addresses than the row that contains it
C8_Witness ==
    /\ pc = "returned" /\ Matches(ip_series[1]) /\ ret.raised = None
    /\ FirstContaining(ip_series[1]).start_ip < FirstContaining(ip_series[1]).end_ip
    /\ BlockFirst(ip_series[1]) > FirstContaining(ip_series[1]).start_ip
    /\ Len(ret.cidrs[1]) >= 2

(***************************************************************************)
(* C9: for a table of the address's family that holds only the row R, with *)
(* a continent column, and every address a with R.start_ip <= a <=         *)
(* R.end_ip (the two ends included), resolving a returns R's country and   *)
(* continent.                                                              *)
(***************************************************************************)
C9_AddressInsideRecordResolves ==
    (/\ pc = "returned" /\ ip_series[1].k = "addr" /\ ip_series[1].v \in {4, 6}
     /\ "continent_name" \in columns
     /\ Len(TableOf(ip_series[1])) = 1
     /\ TableOf(ip_series[1])[1].start_ip <= ip_series[1].a
     /\ ip_series[1].a <= TableOf(ip_series[1])[1].end_ip) =>
        /\ ret.raised = None
        /\ ret.countries = <<TableOf(ip_series[1])[1].country>>
        /\ ret.continents = <<TableOf(ip_series[1])[1].continent_name>>
        /\ ret.errors = <<>>

\* the last address of a single row of several addresses was resolved
C9_Witness ==
    /\ pc = "returned" /\ ip_series[1].k = "addr" /\ ip_series[1].v = 6
    /\ "continent_name" \in columns /\ Len(ipv6_data) = 1
    /\ ipv6_data[1].start_ip < ipv6_data[1].end_ip
    /\ ip_series[1].a = ipv6_data[1].end_ip

(***************************************************************************)
(* C10: for start_ip <= end_ip of one family, the blocks ip_range_to_cidr  *)
(* returns are pairwise disjoint, their union is exactly                   *)
(* [start_ip, end_ip], and each block has a power-of-two size and starts   *)
(* at a multiple of that size.                                             *)
(***************************************************************************)
NetSize(net) == Pow2(max_prefixlen(net.version) - net.prefixlen)
NetAddresses(net) == net.network_address .. net.network_address + NetSize(net) - 1

C10_BlocksDisjointExactAligned ==
    (/\ pc = "exported" /\ start_ip.k = "addr" /\ end_ip.k = "addr"
     /\ start_ip.v = end_ip.v /\ start_ip.a <= end_ip.a) =>
        /\ \A k \in 1 .. Len(cidr_list) :
              /\ cidr_list[k].version = start_ip.v
              /\ cidr_list[k].prefixlen \in 0 .. max_prefixlen(start_ip.v)
              /\ cidr_list[k].network_address % NetSize(cidr_list[k]) = 0
        /\ \A k \in 1 .. Len(cidr_list) : \A m \in 1 .. Len(cidr_list) :
              k # m => NetAddresses(cidr_list[k]) \cap NetAddresses(cidr_list[m]) = {}
        /\ UNION {NetAddresses(cidr_list[k]) : k \in 1 .. Len(cidr_list)}
              = start_ip.a .. end_ip.a

\* a range that needs blocks of different sizes
C10_Witness ==
    /\ pc = "exported" /\ start_ip.k = "addr" /\ end_ip.k = "addr"
    /\ start_ip.v = end_ip.v /\ start_ip.a < end_ip.a
    /\ Len(cidr_list) >= 3
    /\ cidr_list[1].prefixlen # cidr_list[2].prefixlen

(***************************************************************************)
(* C11: for start_ip <= end_ip of one family, the blocks ip_range_to_cidr  *)
(* returns are in ascending address order and as few as possible: no set   *)
(* of aligned power-of-two blocks whose union is exactly                   *)
(* [start_ip, end_ip] has fewer blocks.                                    *)
(***************************************************************************)
\* the sizes an aligned power-of-two block that starts at lo and ends at or
\* before hi can have
AlignedSizesAt(lo, hi, v) ==
    {Pow2(n) : n \in {m \in 0 .. max_prefixlen(v) :
                          lo % Pow2(m) = 0 /\ lo + Pow2(m) - 1 <= hi}}

SetMin(S) == CHOOSE x \in S : \A y \in S : x <= y

\* the least number of aligned blocks whose union is lo .. hi, by trying
\* every block that can hold lo (aligned blocks are nested or disjoint, so
\* the block of a cover that holds lo starts at lo)
RECURSIVE MinBlocks(_, _, _)
MinBlocks(lo, hi, v) ==
    IF lo > hi THEN 0
    ELSE 1 + SetMin({MinBlocks(lo + size, hi, v) : size \in AlignedSizesAt(lo, hi, v)})

ValidRange ==
    /\ start_ip.k = "addr" /\ end_ip.k = "addr"
    /\ start_ip.v = end_ip.v /\ start_ip.a <= end_ip.a

C11_AscendingAndMinimal ==
    (pc = "exported" /\ ValidRange) =>
        /\ \A k \in 1 .. Len(cidr_list) - 1 :
              cidr_list[k].network_address < cidr_list[k + 1].network_address
        /\ Len(cidr_list) = MinBlocks(start_ip.a, end_ip.a, start_ip.v)

\* a range where taking the smallest block first would need more blocks
C11_Witness ==
    /\ pc = "exported" /\ ValidRange
    /\ Len(cidr_list) >= 2
    /\ Len(cidr_list) < end_ip.a - start_ip.a + 1

(***************************************************************************)
(* C19 as claimed: for start_ip <= end_ip of a family of width w, the      *)
(* decomposition ends with at most w blocks.                               *)
(***************************************************************************)
C19_AtMostWidthBlocks ==
    (pc = "exported" /\ ValidRange) => Len(cidr_list) <= max_prefixlen(start_ip.v)

(***************************************************************************)
(* C19 as amended: for start_ip <= end_ip of a family of width w >= 2, the *)
(* decomposition ends with at most 2w - 2 blocks (one block when w = 1).   *)
(***************************************************************************)
MostBlocks(w) == IF w >= 2 THEN 2 * w - 2 ELSE 1

C19_AtMostTwiceWidthBlocks ==
    (pc = "exported" /\ ValidRange) =>
        Len(cidr_list) <= MostBlocks(max_prefixlen(start_ip.v))

\* a range that needs more than w blocks, namely 2w - 2
C19_Witness ==
    /\ pc = "exported" /\ ValidRange
    /\ Len(cidr_list) > max_prefixlen(start_ip.v)
    /\ Len(cidr_list) = MostBlocks(max_prefixlen(start_ip.v))

(***************************************************************************)
(* C20: ip_range_to_cidr returns exactly one block in the two edge cases:  *)
(* start_ip = end_ip gives the host block (prefix length = address width), *)
(* and start_ip = 0 with end_ip = the largest address gives the /0 block.  *)
(***************************************************************************)
C20_EdgeCasesGiveOneBlock ==
    (pc = "exported" /\ ValidRange) =>
        /\ start_ip.a = end_ip.a =>
              cidr_list = <<[version |-> start_ip.v, network_address |-> start_ip.a,
                             prefixlen |-> max_prefixlen(start_ip.v)]>>
        /\ (start_ip.a = 0 /\ end_ip.a = ALL_ONES(start_ip.v)) =>
              cidr_list = <<[version |-> start_ip.v, network_address |-> 0,
                             prefixlen |-> 0]>>

\* the whole address space of a family was summarized
C20_Witness ==
    /\ pc = "exported" /\ ValidRange
    /\ start_ip.a = 0 /\ end_ip.a = ALL_ONES(start_ip.v)
    /\ Len(cidr_list) = 1

(***************************************************************************)
(* C16 as claimed: an item whose resolution raises something other than a  *)
(* parse failure (the matched row has no continent_name column) is         *)
(* recorded as an error and the run goes on: no chunk ends with an         *)
(* exception and the main process does not end with one.                   *)
(***************************************************************************)
C16_NoItemAbortsTheRun ==
    /\ \A c \in 1 .. Len(futures) :
          futures[c].state = "FINISHED" => futures[c].result.raised = None
    /\ Len(df) > 0 => pc # "raised"

(***************************************************************************)
(* C17: the error recorded for a malformed item gives its position in the  *)
(* input: for the item at zero-based position p the row is p + 1 for text  *)
(* input and p + 2 for Excel input, for every chunk size and whichever     *)
(* chunk holds the item.                                                   *)
(***************************************************************************)
RowShift == IF is_text_file THEN 1 ELSE 2

C17_ErrorRowIsInputPosition ==
    /\ \A k \in 1 .. Len(all_errors) :
          all_errors[k][1] = "[Skipped] Error processing IP" =>
             /\ all_errors[k][3] - RowShift \in 0 .. Len(df) - 1
             /\ df[all_errors[k][3] - RowShift + 1] = all_errors[k][2]
             /\ Malformed(all_errors[k][2])
    /\ pc = "done" =>
          \A p \in 0 .. Len(df) - 1 :
              Malformed(df[p + 1]) =>
                 \E k \in 1 .. Len(all_errors) :
                     all_errors[k] = SkippedError(df[p + 1], p + RowShift)

\* a finished run over Excel input with a malformed item that is not the
\* first of the input and lies in a later chunk than a well-formed one
C17_Witness ==
    /\ pc = "done" /\ ~is_text_file /\ Len(futures) >= 2
    /\ ~Malformed(df[1])
    /\ \E p \in 1 .. Len(df) - 1 :
          /\ Malformed(df[p + 1])
          /\ \E k \in 1 .. Len(all_errors) :
                all_errors[k] = SkippedError(df[p + 1], p + 2)

(***************************************************************************)
(* The loaders, seen from the file.                                        *)
(***************************************************************************)
QueryDone == pc \in {"loaded", "load_raised"}
ExportDone == pc \in {"collected", "collect_raised"}

\* the first line of the file holds each of these names
FirstLineHas(wanted) ==
    \A w \in wanted : \E j \in 1 .. Len(csv_file[1]) : csv_file[1][j].k = w

\* the first two cells of the line are dotted texts
Dotted(line) == \A j \in 1 .. 2 : line[j].k \in {"addr", "cidr"} /\ line[j].v = 4

\* the test of dialect d as detect_format_and_load makes it: on the column
\* names pd.read_csv took from the first line and on the first row after it
QueryMeets(d) ==
    CASE d = 1 -> FirstLineHas({"start_ip", "end_ip", "country"})
      [] d = 2 -> Len(csv_file[1]) = 3 /\ Len(csv_file) >= 2 /\ Dotted(csv_file[2])
      [] d = 3 -> FirstLineHas({"ip_version", "start_ip", "end_ip", "country_code"})

\* the test of dialect d as detect_format_and_collect makes it, on first_row
ExportMeets(d) ==
    CASE d = 1 -> csv_file[1] = IpinfoHeader
      [] d = 2 -> Len(csv_file[1]) = 3 /\ Dotted(csv_file[1])
      [] d = 3 -> csv_file[1] = IpapiHeader

\* the dialect the loader reported, 0 if it reported none
Classified ==
    CASE format_msg = "ipinfo.io country.csv" -> 1
      [] format_msg = "dbip-country-lite" -> 2
      [] format_msg = "ipapi.is csv" -> 3
      [] OTHER -> 0

RECURSIVE PoolCount(_)
\* the number of ranges in the pools of the countries in S
PoolCount(S) ==
    IF S = {} THEN 0
    ELSE LET x == CHOOSE y \in S : TRUE
         IN  Len(country_data[x].pool_v4) + Len(country_data[x].pool_v6)
                + PoolCount(S \ {x})

Collected == PoolCount(DOMAIN country_data)
Loaded == Len(ipv4_data) + Len(ipv6_data)

FirstRowOfNoDialect ==
    /\ ~FirstLineHas({"start_ip", "end_ip", "country"})
    /\ ~(Len(csv_file[1]) = 3 /\ Dotted(csv_file[1]))
    /\ ~FirstLineHas({"ip_version", "start_ip", "end_ip", "country_code"})

C13_UnknownSchemaFails ==
    ((QueryDone \/ ExportDone) /\ FirstRowOfNoDialect) =>
        /\ load_error = "Unknown CSV format."
        /\ Loaded = 0
        /\ Collected = 0

(***************************************************************************)
(* C14: a headerless three-column file whose every line is a well-formed   *)
(* range and that is detected as dialect 2 yields one record per line:     *)
(* the first line is loaded as data.  For geoip_csv_export.py this is      *)
(* stated for a run without --ignore_first_row.                            *)
(***************************************************************************)
WellFormedLine(line) ==
    /\ Len(line) = 3
    /\ ip_address_ok(line[1]) /\ ip_address_ok(line[2])
    /\ line[1].v = line[2].v

WellFormedHeaderless == \A r \in 1 .. Len(csv_file) : WellFormedLine(csv_file[r])

C14_HeaderlessFirstRowLoaded ==
    /\ (QueryDone /\ WellFormedHeaderless /\ Dotted(csv_file[1])) =>
          /\ Classified = 2
          /\ Loaded = Len(csv_file)
    /\ (ExportDone /\ WellFormedHeaderless /\ Dotted(csv_file[1])
           /\ ~args.ignore_first_row) =>
          /\ Classified = 2
          /\ Collected = Len(csv_file)

(***************************************************************************)
(* C15: a line whose start or end address does not parse, or that has too  *)
(* few cells, does not end the load: under the ipinfo.io header (dialect 1 *)
(* in both loaders) the load ends without an exception and has loaded      *)
(* exactly the other lines.                                                *)
(***************************************************************************)
GoodLine(line) == Len(line) > 2 /\ ip_address_ok(line[1]) /\ ip_address_ok(line[2])

GoodLines == Cardinality({r \in 2 .. Len(csv_file) : GoodLine(csv_file[r])})

C15_BadRowNeverAbortsLoad ==
    /\ (QueryDone /\ csv_file[1] = IpinfoHeader) =>
          load_error = None /\ Loaded = GoodLines
    /\ (ExportDone /\ csv_file[1] = IpinfoHeader) =>
          load_error = None /\ Collected = GoodLines

(***************************************************************************)
(* C18: after a load every record of the tables (ipv4_data, ipv6_data, and *)
(* the pools collect fills) has start <= end.                              *)
(***************************************************************************)
C18_StartNotAfterEnd ==
    /\ QueryDone =>
          /\ \A k \in 1 .. Len(ipv4_data) : ipv4_data[k].start_ip <= ipv4_data[k].end_ip
          /\ \A k \in 1 .. Len(ipv6_data) : ipv6_data[k].start_ip <= ipv6_data[k].end_ip
    /\ ExportDone =>
          \A x \in DOMAIN country_data :
              /\ \A k \in 1 .. Len(country_data[x].pool_v4) :
                    country_data[x].pool_v4[k][1] <= country_data[x].pool_v4[k][2]
              /\ \A k \in 1 .. Len(country_data[x].pool_v6) :
                    country_data[x].pool_v6[k][1] <= country_data[x].pool_v6[k][2]

(***************************************************************************)
(* C21: for a file whose header holds ip_version, start_ip, end_ip and     *)
(* country_code, in both loaders no record comes from the header line and  *)
(* the country of every loaded record is the country_code cell of a data   *)
(* line, also when the header holds a column named country as well.        *)
(***************************************************************************)
HeaderIndex(w) == CHOOSE j \in 1 .. Len(csv_file[1]) : csv_file[1][j].k = w

\* the country_code cell of line r as text; what pd.read_csv reads as
\* missing is NaN
CodeCell(r) ==
    IF HeaderIndex("country_code") > Len(csv_file[r]) THEN Word(NaN)
    ELSE csv_file[r][HeaderIndex("country_code")]

CodeCells == {CodeCell(r) : r \in 2 .. Len(csv_file)}
CodesRead == {IF x.k \in {"", "NA"} THEN NaN ELSE x.k : x \in CodeCells}

C21_CountryIsCountryCode ==
    FirstLineHas({"ip_version", "start_ip", "end_ip", "country_code"}) =>
        /\ pc = "loaded" =>
              /\ Loaded <= Len(csv_file) - 1
              /\ \A k \in 1 .. Len(ipv4_data) : ipv4_data[k].country \in CodesRead
              /\ \A k \in 1 .. Len(ipv6_data) : ipv6_data[k].country \in CodesRead
        /\ ExportDone =>
              /\ Collected <= Len(csv_file) - 1
              /\ \A x \in DOMAIN country_data :
                    PoolCount({x}) > 0 => x \in CodeCells

(***************************************************************************)
(* C22: every "Skipping row" message of collect names the 1-based line of  *)
(* the file that the skipped row is, whether the first line was left out   *)
(* as a header or handed to collect as data: the numbers reported are      *)
(* lines of the file, each a line with too few cells for the columns       *)
(* read, in ascending order.                                               *)
(***************************************************************************)
\* the largest column index collect reads
LastColumnRead ==
    CASE Classified \in {1, 2} -> 2
      [] Classified = 3 -> 4
      [] OTHER -> Max3(args.start_ip_col, args.end_ip_col, args.country_code_col)

C22_SkipReportsFileLine ==
    ExportDone =>
        /\ \A k \in 1 .. Len(stderr) :
              /\ stderr[k] \in 1 .. Len(csv_file)
              /\ Len(csv_file[stderr[k]]) <= LastColumnRead
        /\ \A k \in 1 .. Len(stderr) - 1 : stderr[k] < stderr[k + 1]

(***************************************************************************)
(* C23: once the chunks are submitted there are ceil(n / c) of them for n  *)
(* items and chunk size c; chunk number k holds the items at positions     *)
(* (k-1)c .. kc-1 in order (the last chunk those up to n-1), so every      *)
(* chunk but possibly the last has c items and every position is in        *)
(* exactly one chunk.  A worker's result has one row per item of its       *)
(* chunk, no position is collected twice, and when the run has finished    *)
(* every position was collected exactly once.                              *)
(***************************************************************************)
CeilDiv(n, c) == (n + c - 1) \div c

\* the positions handed out in the chunks, as (chunk, place) pairs
Placements(p) ==
    {<<c, j>> \in (1 .. Len(futures)) \X (1 .. chunk_size) :
        j <= Len(futures[c].chunk) /\ futures[c].chunk[j].index = p}

Collections(p) ==
    {<<c, j>> \in (1 .. Len(results)) \X (1 .. chunk_size) :
        j <= Len(results[c]) /\ results[c][j].OriginalIndex = p}

C23_ContiguousChunksOncePerItem ==
    pc \in {"as_completed", "raised", "done"} =>
        /\ Len(futures) = CeilDiv(Len(df), chunk_size)
        /\ \A c \in 1 .. Len(futures) :
              /\ Len(futures[c].chunk) =
                    IF c < Len(futures) THEN chunk_size
                    ELSE Len(df) - (Len(futures) - 1) * chunk_size
              /\ Len(futures[c].chunk) \in 1 .. chunk_size
              /\ \A j \in 1 .. Len(futures[c].chunk) :
                    /\ futures[c].chunk[j].index = (c - 1) * chunk_size + j - 1
                    /\ futures[c].chunk[j].IP = df[(c - 1) * chunk_size + j]
              /\ (futures[c].state = "FINISHED" /\ futures[c].result.raised = None) =>
                    /\ Len(futures[c].result.chunk) = Len(futures[c].chunk)
                    /\ \A j \in 1 .. Len(futures[c].chunk) :
                          futures[c].result.chunk[j].OriginalIndex =
                             futures[c].chunk[j].index
        /\ \A p \in 0 .. Len(df) - 1 :
              /\ Cardinality(Placements(p)) = 1
              /\ Cardinality(Collections(p)) <= 1
              /\ pc = "done" => Cardinality(Collections(p)) = 1

\* a finished run of three items in chunks of two: the last chunk is short
C23_Witness ==
    /\ pc = "done"
    /\ Len(df) = 3 /\ chunk_size = 2
    /\ Len(futures) = 2 /\ Len(futures[2].chunk) = 1

(***************************************************************************)
(* C24: the output is written only when every chunk's worker has finished  *)
(* and its result was taken from as_completed; until then there is no      *)
(* output.                                                                 *)
(***************************************************************************)
C24_MergeAfterAllCollected ==
    /\ pc = "done" =>
          /\ \A c \in 1 .. Len(futures) :
                futures[c].state = "FINISHED" /\ futures[c].yielded
          /\ Len(results) = Len(futures)
    /\ pc \in {"submit", "as_completed", "raised"} => output_file = None

\* a finished run of several chunks
C24_Witness ==
    /\ pc = "done"
    /\ Len(futures) >= 2
    /\ Len(output_file) >= 1

(***************************************************************************)
(* C25: no step of the pipeline (submitting, a worker resolving its chunk, *)
(* collecting, merging) changes the IPv4 or the IPv6 table.                *)
(***************************************************************************)
C25_TablesUnchanged ==
    [][ipv4_data' = ipv4_data /\ ipv6_data' = ipv6_data]_vars

\* a finished run in which items matched records of both tables
C25_Witness ==
    /\ pc = "done"
    /\ Len(ipv4_data) > 0 /\ Len(ipv6_data) > 0
    /\ \E k \in 1 .. Len(output_file) : output_file[k].IP.v = 4
    /\ \E k \in 1 .. Len(output_file) : output_file[k].IP.v = 6

(***************************************************************************)
(* C26: when the run has finished, the output and the errors are those of  *)
(* resolving the whole input as one chunk: the output is the same list of  *)
(* rows, and all_errors holds the same messages as often, whatever the     *)
(* chunk size and the order in which the chunks completed.  The run ends   *)
(* with an exception only if the one-chunk run does.                       *)
(***************************************************************************)
SingleChunk ==
    process_chunk(DataFrame(df), ipv4_data, ipv6_data, columns, 0, is_text_file)

SameMessages(e1, e2) ==
    /\ Len(e1) = Len(e2)
    /\ \A k \in 1 .. Len(e1) : Count(e1, e1[k]) = Count(e2, e1[k])

C26_SameAsSingleChunk ==
    /\ pc = "done" =>
          /\ SingleChunk.raised = None
          /\ output_file = merge_results(<<SingleChunk.chunk>>)
          /\ SameMessages(all_errors, SingleChunk.errors)
    /\ (pc = "raised" /\ Len(df) > 0) => SingleChunk.raised # None

\* a finished run of several chunks that wrote a row and whose errors were
\* collected in another order than one chunk gives them
C26_Witness ==
    /\ pc = "done"
    /\ Len(futures) >= 2
    /\ Len(output_file) >= 1
    /\ Len(all_errors) >= 2
    /\ all_errors # SingleChunk.errors

(***************************************************************************)
(* C27: with an empty input (no item, so no chunk) the run does not end    *)
(* with an exception: it finishes with an empty output and no error.       *)
(***************************************************************************)
C27_EmptyInputCompletes ==
    Len(df) = 0 =>
        /\ pc # "raised"
        /\ pc = "done" => (output_file = <<>> /\ all_errors = <<>>)

(***************************************************************************)
(* C28: every line of the text file that starts with an address or block   *)
(* text reaches the resolver as that text, in line order (a port, text     *)
(* after whitespace and a comment are removed), so no well-formed IPv6     *)
(* line is reported as unparsable.                                         *)
(***************************************************************************)
HasText(line) == line.text # Word("")

WrittenTexts ==
    LET kept == SelectSeq(lines, HasText)
    IN  [j \in 1 .. Len(kept) |-> kept[j].text]

C28_Ipv6LineReachesResolver ==
    /\ pc \in {"call", "returned"} => ip_series = WrittenTexts
    /\ pc = "returned" =>
          \A k \in 1 .. Len(ret.errors) :
              ret.errors[k][1] = "[Skipped] Error processing IP" =>
                 /\ ret.errors[k][3] \in 1 .. Len(WrittenTexts)
                 /\ Malformed(WrittenTexts[ret.errors[k][3]])

(***************************************************************************)
(* C29: when the ipinfo.io batch tool has written its output, the output   *)
(* has one row per input item, in input order: the row of position p is    *)
(* the item at p with the country, continent and cidr of the first record  *)
(* that contains it, or with all three absent when no record contains it   *)
(* or when the text is not one address.  all_errors holds one entry for    *)
(* every item that is not one address, naming its text and row, and        *)
(* nothing else.                                                           *)
(***************************************************************************)
NotOneAddress(q) == ~(q.k = "addr" /\ q.a \in Addresses(q.v))

C29_IpinfoKeepsEveryRow ==
    pc = "done" =>
        /\ Len(output_file) = Len(df)
        /\ \A p \in 1 .. Len(df) :
              /\ output_file[p].index = p - 1
              /\ output_file[p].IP = df[p]
              /\ IF ~NotOneAddress(df[p]) /\ Matches(df[p])
                 THEN /\ output_file[p].Country = FirstContaining(df[p]).country
                      /\ output_file[p].Continent = FirstContaining(df[p]).continent_name
                      /\ output_file[p].CIDR
                            = summarize_address_range(FirstContaining(df[p]).start_ip,
                                                      FirstContaining(df[p]).end_ip,
                                                      df[p].v)
                 ELSE /\ output_file[p].Country = None
                      /\ output_file[p].Continent = None
                      /\ output_file[p].CIDR = None
              /\ NotOneAddress(df[p]) =>
                    Count(all_errors, IpinfoSkippedError(df[p], p - 1 + RowShift)) = 1
        /\ Len(all_errors) = Cardinality({p \in 1 .. Len(df) : NotOneAddress(df[p])})

\* a finished run of several chunks with an unmatched item, an item that is
\* not an address, and a matched item whose country is missing
C29_Witness ==
    /\ pc = "done" /\ Len(futures) >= 2 /\ Len(output_file) = 3
    /\ \E p \in 1 .. Len(df) : ~NotOneAddress(df[p]) /\ ~Matches(df[p])
    /\ \E p \in 1 .. Len(df) : NotOneAddress(df[p])
    /\ \E p \in 1 .. Len(df) : output_file[p].Country = NaN

(***************************************************************************)
(* C30: in run_tests, with either test function, once every task has       *)
(* finished the main process eventually has left the wait loop, collected  *)
(* one result per target and saved them.                                   *)
(***************************************************************************)
AllTasksFinished ==
    /\ pc \in {"wait", "as_completed"}
    /\ \A c \in 1 .. Len(futures) : futures[c].state = "FINISHED"

C30_MainLeavesWaitLoop ==
    AllTasksFinished ~> (pc = "saved" /\ Len(results) = Len(targets))

====
